---- MODULE Spec2Model ----
(***************************************************************************)
(* A model of pinia-api-client: the generic CRUD store built by            *)
(* createGenericStore (src/src/pinia.ts) on top of the axios wrapper       *)
(* apiClient (src/unnamed/part_000, "utils/apiClient").                    *)
(*                                                                         *)
(* JavaScript is single threaded: every action below is one synchronous    *)
(* continuation of the code (from a call, or from the settling of an       *)
(* awaited promise, up to the next await).  Overlapping base actions       *)
(* interleave only at those boundaries.                                    *)
(***************************************************************************)
EXTENDS Integers, Sequences, FiniteSets, TLC

VARIABLES
    axiosInstance,  \* part_000:7   0 = undefined, n > 0 = the n-th instance created
    instance,       \* what the instance axiosInstance refers to was created with
    extension,      \* the names of base actions that extensions.actions defines as well
    included,       \* the options.actions a caller passes as 4th argument of createGenericStore
    store,          \* pinia.ts:65-76  the container state {items, item, loading, error, meta}
    calls,          \* the pending invocations of base actions (promises not yet settled)
    resolved        \* the invocation whose promise the last step settled, as its caller observes it

vars == <<axiosInstance, instance, extension, included, store, calls, resolved>>

-----------------------------------------------------------------------------
(* Bounds *)

MaxPending == 2     \* base actions pending at the same time
MaxInits   == 2     \* calls of initApiClient

-----------------------------------------------------------------------------
(* JavaScript values *)

Null       == [t |-> "null"]
Undefined  == [t |-> "undefined"]
Err(m)     == [t |-> "Error", message |-> m]       \* an instance of Error
Obj(m)     == [t |-> "object", message |-> m]      \* the plain object {message: m}
Str(s)     == [t |-> "string", s |-> s]
Entity(i)  == [t |-> "entity", id |-> i]           \* an entity T, {id: i, ...}
Fn(n)      == [t |-> "function", name |-> n]       \* the function named n
Num(n)     == [t |-> "number", n |-> n]
Bool(b)    == [t |-> "boolean", b |-> b]
Arr(items) == [t |-> "array", items |-> items]

\* an optional field of a JSON object: p = present, v = its value
Opt(S, dummy) == {[p |-> FALSE, v |-> dummy]} \cup {[p |-> TRUE, v |-> x] : x \in S}

Ids        == {1, 2}
Entities   == {Entity(i) : i \in Ids}

\* String(v), as used by `new Error(String(err))`
String(v) ==
    CASE v.t = "string"    -> v.s
      [] v.t = "undefined" -> "undefined"
      [] v.t = "null"      -> "null"
      [] v.t = "Error"     -> "Error: " \o v.message
      [] OTHER             -> "[object Object]"

-----------------------------------------------------------------------------
(* What the server and the transport can answer *)

ObjectLists == {<<>>, <<Entity(1), Entity(2)>>}

\* the list envelope {objects?, current_page?, num_pages?, total_count?}
ListResponses ==
    [t : {"list"},
     objects      : Opt(ObjectLists, <<Entity(2)>>),
     current_page : Opt({2}, -1),
     num_pages    : Opt({3}, -1),
     total_count  : Opt({0}, -1)]

\* bodies of non-2xx responses
ErrorBodies == {Obj("Not Found"), Str("Server Error"), Undefined}

\* a failed transport call, as axios reports it: error.response (with .data),
\* error.request, error.message
TransportErrors ==
    {[hasResponse |-> TRUE,  data |-> b, hasRequest |-> TRUE, message |-> "Request failed with status code"]
        : b \in ErrorBodies}
    \cup {[hasResponse |-> FALSE, data |-> Undefined, hasRequest |-> TRUE,  message |-> "Network Error"],
          [hasResponse |-> FALSE, data |-> Undefined, hasRequest |-> TRUE,  message |-> "timeout exceeded"],
          [hasResponse |-> FALSE, data |-> Undefined, hasRequest |-> FALSE, message |-> "Bad config"],
          [hasResponse |-> FALSE, data |-> Undefined, hasRequest |-> FALSE, message |-> "Upload Failed"]}

-----------------------------------------------------------------------------
(* utils/apiClient *)

NotInitializedMessage == "apiClient not initialized. Call initApiClient(config) first."

EmptyObject == <<>>                  \* {}
Absent      == [absent |-> TRUE]     \* a key that is not set on the axios request config

\* { ...base, ...over }: the keys of both, over winning
ObjectSpread(base, over) == over @@ base

\* a slip: the default is spread after the caller's headers
MergedHeaders_defaultWins(headers) ==
    ObjectSpread(IF headers = Undefined THEN EmptyObject ELSE headers,
                 "Content-Type" :> "application/json")

\* { 'Content-Type': 'application/json', ...(restConfig.headers || {}) }
MergedHeaders(headers) ==
    ObjectSpread("Content-Type" :> "application/json",
                 IF headers = Undefined THEN EmptyObject ELSE headers)

\* ensureArray(itemOrArray)
ensureArray(itemOrArray) ==
    IF itemOrArray = Undefined THEN <<>>
    ELSE IF itemOrArray.t = "array" THEN itemOrArray.items
    ELSE <<itemOrArray>>

\* errors[0] of an array that may be empty
First(errors) == IF Len(errors) = 0 THEN Undefined ELSE errors[1]

\* a slip: the i-th interceptor gets the i-th error handler
Registered_pairwise(interceptors, errors) ==
    LET is == ensureArray(interceptors)
        es == ensureArray(errors)
    IN  [i \in 1..Len(is) |->
            [onFulfilled |-> is[i], onRejected |-> IF i <= Len(es) THEN es[i] ELSE Undefined]]

\* interceptors.forEach(interceptor => axiosInstance.interceptors.<direction>.use(
\*     interceptor, errors[0])): the calls of use(), in order
Registered(interceptors, errors) ==
    LET is == ensureArray(interceptors)
        es == ensureArray(errors)
    IN  [i \in 1..Len(is) |-> [onFulfilled |-> is[i], onRejected |-> First(es)]]

\* before initApiClient there is no instance
NoInstance == [t |-> "undefined"]

\* a slip: the new instance inherits what the previous one had
NewInstance_merged(previous, config) ==
    [config       |-> config,
     baseURL      |-> config.baseURL,
     headers      |-> IF previous = NoInstance THEN MergedHeaders(config.headers)
                      ELSE ObjectSpread(previous.headers, MergedHeaders(config.headers)),
     request      |-> (IF previous = NoInstance THEN <<>> ELSE previous.request)
                      \o Registered(config.requestInterceptors, config.requestInterceptorErrors),
     response     |-> (IF previous = NoInstance THEN <<>> ELSE previous.response)
                      \o Registered(config.responseInterceptors, config.responseInterceptorErrors)]

\* axios.create({...}) and the registration of the interceptors: what
\* axiosInstance refers to after initApiClient(config), previous being what it
\* referred to before
NewInstance(previous, config) ==
    [config       |-> config,
     baseURL      |-> config.baseURL,
     headers      |-> MergedHeaders(config.headers),
     request      |-> Registered(config.requestInterceptors, config.requestInterceptorErrors),
     response     |-> Registered(config.responseInterceptors, config.responseInterceptorErrors)]

\* a slip: the check of axiosInstance is missing
ApiRequest_noGuard(method, url, dataOrParams) ==
    [sent |-> TRUE,
     req  |-> [method |-> method, url |-> url,
               params |-> IF method \in {"get", "delete"} THEN dataOrParams ELSE Absent,
               data   |-> IF method \in {"get", "delete"} THEN Absent ELSE dataOrParams,
               headers |-> Absent, via |-> "request", inst |-> axiosInstance]]

\* a slip: only GET passes its payload as query parameters
ApiRequest_deleteBody(method, url, dataOrParams) ==
    IF axiosInstance = 0
    THEN [sent |-> FALSE, thrown |-> Err(NotInitializedMessage)]
    ELSE [sent |-> TRUE,
          req  |-> [method |-> method, url |-> url,
                    params |-> IF method = "get" THEN dataOrParams ELSE Absent,
                    data   |-> IF method = "get" THEN Absent ELSE dataOrParams,
                    headers |-> Absent, via |-> "request", inst |-> axiosInstance]]

\* a slip: the wrapper keeps the instance of the first initApiClient
ApiRequest_firstInstance(method, url, dataOrParams) ==
    IF axiosInstance = 0
    THEN [sent |-> FALSE, thrown |-> Err(NotInitializedMessage)]
    ELSE [sent |-> TRUE,
          req  |-> [method |-> method, url |-> url,
                    params |-> IF method \in {"get", "delete"} THEN dataOrParams ELSE Absent,
                    data   |-> IF method \in {"get", "delete"} THEN Absent ELSE dataOrParams,
                    headers |-> Absent, via |-> "request", inst |-> 1]]

\* request(): the synchronous part, up to `await axiosInstance.request(...)`.
\* via = the method of the axios instance that is called
ApiRequest(method, url, dataOrParams) ==
    IF axiosInstance = 0
    THEN [sent |-> FALSE, thrown |-> Err(NotInitializedMessage)]
    ELSE [sent |-> TRUE,
          req  |-> [method |-> method,
                    url    |-> url,
                    params |-> IF method \in {"get", "delete"} THEN dataOrParams ELSE Absent,
                    data   |-> IF method \in {"get", "delete"} THEN Absent ELSE dataOrParams,
                    headers |-> Absent,
                    via    |-> "request",
                    inst   |-> axiosInstance]]

MultipartHeaders == [ContentType |-> "multipart/form-data"]

\* postFile(): the synchronous part, up to `await axiosInstance.post(...)`
PostFileRequest(url, formData) ==
    IF axiosInstance = 0
    THEN [sent |-> FALSE, thrown |-> Err(NotInitializedMessage)]
    ELSE [sent |-> TRUE,
          req  |-> [method |-> "post",
                    url    |-> url,
                    params |-> Absent,
                    data   |-> formData,
                    headers |-> MultipartHeaders,
                    via    |-> "post",
                    inst   |-> axiosInstance]]

\* a slip: error.request is looked at before error.response
handleError_requestFirst(error) ==
    IF error.hasRequest THEN Err("No response from server")
    ELSE IF error.hasResponse THEN error.data
    ELSE Err("Request failed: " \o error.message)

\* a slip: the original message is appended to the no-response message
handleError_withMessage(error) ==
    IF error.hasResponse THEN error.data
    ELSE IF error.hasRequest THEN Err("No response from server: " \o error.message)
    ELSE Err("Request failed: " \o error.message)

\* a slip: the original message is dropped from the setup error
handleError_dropsMessage(error) ==
    IF error.hasResponse THEN error.data
    ELSE IF error.hasRequest THEN Err("No response from server")
    ELSE Err("Request failed")

\* handleError(): the value it throws
handleError(error) ==
    IF error.hasResponse THEN error.data
    ELSE IF error.hasRequest THEN Err("No response from server")
    ELSE Err("Request failed: " \o error.message)

\* handleError(): what it writes with console.error before it throws
handleErrorLog(error) ==
    IF error.hasResponse THEN <<"API Error Status:", "API Error Data:">>
    ELSE IF error.hasRequest THEN <<"No response received:">>
    ELSE <<"Request setup error:">>

\* a slip: the catch block of request() swallows the error
ApiSettle_swallow(outcome) ==
    IF outcome.ok
    THEN [ok |-> TRUE, value |-> outcome.data, console |-> <<>>]
    ELSE [ok |-> TRUE, value |-> Undefined, console |-> handleErrorLog(outcome.error)]

\* request() and postFile(): the continuation after the transport promise settled.
\* outcome = [ok |-> TRUE, status, data |-> d] or [ok |-> FALSE, error |-> e];
\* the result is how the wrapper's promise settles and what was logged
ApiSettle(outcome) ==
    IF outcome.ok
    THEN [ok |-> TRUE,  value |-> outcome.data, console |-> <<>>]
    ELSE [ok |-> FALSE, value |-> handleError(outcome.error),
          console |-> handleErrorLog(outcome.error)]

-----------------------------------------------------------------------------
(* createGenericStore *)

BaseActions == {"fetchAll", "fetchOne", "create", "update", "remove"}
Mutations   == {"create", "update", "remove"}

\* the subsets of base actions a caller may ask for ('all' is BaseActions)
IncludedChoices == {BaseActions, {"fetchAll", "fetchOne"}, {"create"}, {"update", "remove"}}

InitialMeta == [currentPage |-> 1, totalPages |-> 1, totalCount |-> 0]

InitialState ==
    [items |-> <<>>, item |-> Null, loading |-> FALSE, error |-> Null, meta |-> InitialMeta]

\* the actions object of the store definition: the base actions installed on
\* a container built with options.actions = incl
StoreActions(incl) == BaseActions

\* a slip: the extension's actions are spread before the base actions
Actions_baseWins(ext) ==
    [a \in BaseActions |-> "base"] @@ [a \in ext |-> "extension"]

\* actions: { ...base actions, ...(extensions.actions || {}) }: which
\* definition each action name of the container is bound to, ext being the
\* base-action names that extensions.actions defines
Actions(ext) ==
    ObjectSpread([a \in BaseActions |-> "base"], [a \in ext |-> "extension"])

\* what an action of the extension bundle resolves to
ExtensionResult == Str("extension")

Method(op) ==
    CASE op \in {"fetchAll", "fetchOne"} -> "get"
      [] op = "create" -> "post"
      [] op = "update" -> "put"
      [] op = "remove" -> "delete"

Endpoint == <<"endpoint">>

\* a slip: fetchOne requests the collection
Url_fetchOneList(op, id) ==
    IF op \in {"fetchAll", "create", "fetchOne"} THEN Endpoint ELSE Endpoint \o <<id>>

\* endpoint or `${endpoint}/${id}`
Url(op, id) == IF op \in {"fetchAll", "create"} THEN Endpoint ELSE Endpoint \o <<id>>

\* a slip: the previous error is not cleared
Begin_keepError(s) == [s EXCEPT !.loading = TRUE]

\* this.loading = true; this.error = null
Begin(s) == [s EXCEPT !.loading = TRUE, !.error = Null]

\* a slip: loading is never reset
Finally_skip(s) == s

\* a slip: the finally block resets the error too
Finally_clearsError(s) == [s EXCEPT !.loading = FALSE, !.error = Null]

\* finally { this.loading = false }
Finally(s) == [s EXCEPT !.loading = FALSE]

\* a slip: the caught value stored as it is
ToError_raw(err) == err

\* err instanceof Error ? err : new Error(String(err))
ToError(err) == IF err.t = "Error" THEN err ELSE Err(String(err))

\* a slip: the catch block rethrows
CatchBlock_rethrow(s, err) ==
    [state |-> [s EXCEPT !.error = ToError(err)], completion |-> "throw", value |-> err]

\* a slip: the catch block empties the list
CatchBlock_clearsItems(s, err) ==
    [state |-> [s EXCEPT !.error = ToError(err), !.items = <<>>],
     completion |-> "return", value |-> Undefined]

\* a slip: the catch block does not record the error
CatchBlock_noError(s, err) ==
    [state |-> s, completion |-> "return", value |-> Undefined]

\* catch (err) { this.error = ...; return undefined }
CatchBlock(s, err) ==
    [state |-> [s EXCEPT !.error = ToError(err)], completion |-> "return", value |-> Undefined]

\* const { objects = [], current_page = 1, num_pages = 1, total_count } = response
Destructure(response) ==
    [objects      |-> IF response.objects.p THEN response.objects.v ELSE <<>>,
     current_page |-> IF response.current_page.p THEN response.current_page.v ELSE 1,
     num_pages    |-> IF response.num_pages.p THEN response.num_pages.v ELSE 1,
     total_count  |-> response.total_count]

\* a slip: a missing total_count counted as 0
TotalCount_zero(d) == IF d.total_count.p THEN d.total_count.v ELSE 0

\* total_count ?? objects.length
TotalCount(d) == IF d.total_count.p THEN d.total_count.v ELSE Len(d.objects)

DestructureError == Err("TypeError: Cannot destructure property 'objects'")

\* a slip: fetchAll replaces the list and forgets the pagination
FetchAllTry_keepsMeta(s, res) ==
    IF ~res.ok THEN [ok |-> FALSE, thrown |-> res.value]
    ELSE IF res.value.t # "list" THEN [ok |-> FALSE, thrown |-> DestructureError]
    ELSE [ok |-> TRUE, state |-> [s EXCEPT !.items = Destructure(res.value).objects]]

\* the try block of fetchAll after `await apiClient.get(endpoint, params)` settled
\* with res = [ok, value]
FetchAllTry(s, res) ==
    IF ~res.ok THEN [ok |-> FALSE, thrown |-> res.value]
    ELSE IF res.value.t # "list" THEN [ok |-> FALSE, thrown |-> DestructureError]
    ELSE LET d == Destructure(res.value)
         IN  [ok |-> TRUE,
              state |-> [s EXCEPT !.items = d.objects,
                                  !.meta  = [currentPage |-> d.current_page,
                                             totalPages  |-> d.num_pages,
                                             totalCount  |-> TotalCount(d)]]]

\* a slip: remove forgets to refetch
RefreshesList_notRemove(op, ok) == ok /\ op \in {"create", "update"}

\* a slip: the refetch moved to where it also runs after a failure
RefreshesList_always(op, ok) == op \in {"create", "update", "remove"}

\* create/update/remove call this.fetchAll() in their try block, after the
\* await of their own request: ok = that request did not throw
RefreshesList(op, ok) == ok /\ op \in Mutations

\* the value a base action returns on success
ReturnValue(op, data) == IF op \in {"create", "update"} THEN data ELSE Undefined

-----------------------------------------------------------------------------
(* The state machine *)

ParamChoices ==
    {EmptyObject,
     [page |-> Num(0), search |-> Str("x"), active |-> Bool(FALSE), tags |-> Arr(<<Str("a")>>),
      filter |-> Obj("nested")]}
Payloads     == {[name |-> "X"]}

NoCall == [op |-> "none"]

\* the configs callers pass to initApiClient
Config(baseURL, headers, reqI, reqE, resI, resE) ==
    [baseURL |-> baseURL, headers |-> headers,
     requestInterceptors |-> reqI, requestInterceptorErrors |-> reqE,
     responseInterceptors |-> resI, responseInterceptorErrors |-> resE]

PlainConfig == Config("/api", Undefined, Undefined, Undefined, Undefined, Undefined)

HeaderMaps ==
    {Undefined,
     "X-Custom" :> "v",
     "Content-Type" :> "text/plain",
     ("Content-Type" :> "text/plain") @@ ("Authorization" :> "token")}

\* interceptors: none, a single function, a list, an empty list
InterceptorChoices == {Undefined, Fn("f1"), Arr(<<Fn("f1"), Fn("f2")>>), Arr(<<>>)}
ErrorHandlerChoices == {Undefined, Fn("e1"), Arr(<<Fn("e1"), Fn("e2")>>)}

Configs ==
    {Config("/v1", h, Undefined, Undefined, Undefined, Undefined) : h \in HeaderMaps}
    \cup {Config("/v2", Undefined, i, e, Fn("g1"), Undefined)
             : i \in InterceptorChoices, e \in ErrorHandlerChoices}
    \cup {Config("/v3", "X-Custom" :> "v", Arr(<<Fn("g1"), Fn("g2")>>), Fn("h1"), i, e)
             : i \in InterceptorChoices, e \in ErrorHandlerChoices}

\* the extension bundles: the base actions that extensions.actions redefines
ExtensionChoices == {{}} \cup {{a} : a \in BaseActions} \cup {BaseActions}

\* What the environment of a run may do: how many base actions may be pending
\* at once, the options and arguments callers pass, the answers of the server.
\* Alone: every base action runs alone, against every answer, and the client
\* is initialised up to MaxInits times, also while an action is pending.
\* Overlap: up to MaxPending base actions overlap, against a few answers, and
\* the client is initialised once.
\* Custom: every base action runs alone against one answer of each kind, on a
\* container built with every extension bundle, and the client is initialised
\* up to MaxInits times with every config.
Alone ==
    [pending |-> 1, inits |-> MaxInits, included |-> IncludedChoices, ids |-> Ids, params |-> ParamChoices,
     lists |-> ListResponses \cup {Undefined}, errors |-> TransportErrors,
     configs |-> {PlainConfig}, extensions |-> {{}}]

Overlap ==
    [pending |-> MaxPending, inits |-> 1, included |-> {BaseActions}, ids |-> {1},
     params |-> {EmptyObject},
     lists |-> {r \in ListResponses : r.current_page.p /\ r.num_pages.p /\ ~r.total_count.p
                                         /\ r.objects # [p |-> TRUE, v |-> <<>>]},
     errors |-> {e \in TransportErrors : e.message = "Network Error"},
     configs |-> {PlainConfig}, extensions |-> {{}}]

Custom ==
    [pending |-> 1, inits |-> MaxInits, included |-> {BaseActions}, ids |-> {1},
     params |-> {EmptyObject},
     lists |-> {r \in ListResponses : r.current_page.p /\ r.num_pages.p /\ r.total_count.p
                                         /\ r.objects = [p |-> TRUE, v |-> <<Entity(1), Entity(2)>>]},
     errors |-> {e \in TransportErrors : e.message = "Network Error"},
     configs |-> Configs, extensions |-> ExtensionChoices]

Init(P) ==
    /\ axiosInstance = 0
    /\ instance = NoInstance
    /\ extension \in P.extensions
    /\ included \in P.included
    /\ store = InitialState
    /\ calls = <<>>
    /\ resolved = NoCall

Pending == DOMAIN calls

NotThrown == [t |-> "nothing"]        \* no value was thrown
Unsettled == [unsettled |-> TRUE]     \* the transport has not answered yet

\* a base action as it is when called: nothing requested yet
NewCall(op, id, args) ==
    [op |-> op, id |-> id, args |-> args,
     stage |-> "own",        \* "own": the action's own request; "refresh": the nested this.fetchAll()
     pc |-> "called",        \* "await": a transport request is in flight; "thrown": request() threw;
                             \* "refreshed" / "refreshThrew": the nested fetchAll has settled
     data |-> Undefined,     \* createdData / updatedData
     rejection |-> NotThrown,     \* the value request() threw, not yet caught
     thrown |-> NotThrown,        \* the value the action's catch block caught
     by |-> "base",               \* the definition that runs: the base action or the extension's
     refreshBy |-> "none",        \* the definition of fetchAll the mutation called
     refreshThrown |-> NotThrown, \* the value the catch block of the nested fetchAll caught
     log |-> <<>>]           \* the transport requests issued: the request, the state it was
                             \* issued in, and the transport's answer

\* the wrapper was called from a call whose state is s, and ran up to its
\* await: r = what it sent or threw
Sent(call, s, r) ==
    IF r.sent
    THEN [call EXCEPT !.pc = "await",
                      !.log = Append(@, [req |-> r.req, sawLoading |-> s.loading,
                                         sawError |-> s.error, outcome |-> Unsettled,
                                         res |-> Unsettled])]
    ELSE [call EXCEPT !.pc = "thrown", !.rejection = r.thrown]

\* a parameter with the default value {}: `params = {}`, `data = {}`
DefaultEmpty(v) == IF v = Undefined THEN EmptyObject ELSE v

\* apiClient.<verb>(url, payload) called from an action whose state is s;
\* payload = Undefined when the action passes none
Issue(call, s, method, url, payload) ==
    Sent(call, s, ApiRequest(method, url, DefaultEmpty(payload)))

InFlight(call) == call.log[Len(call.log)].req

\* the transport answers the request in flight and the wrapper's promise settles
Answered(call, outcome) ==
    [call EXCEPT !.log[Len(call.log)].outcome = outcome,
                 !.log[Len(call.log)].res = ApiSettle(outcome)]

\* the action's promise settles: what its caller observes
Settled(call, settled, result) ==
    [op |-> call.op, id |-> call.id, args |-> call.args, settled |-> settled, result |-> result,
     by |-> call.by, refreshBy |-> call.refreshBy,
     thrown |-> call.thrown, refreshThrown |-> call.refreshThrown, log |-> call.log]

\* a step of call c that leaves it pending
Pend(s, call) == [store |-> s, call |-> call, done |-> FALSE, settled |-> "pending", result |-> Undefined]

\* a step of call c that settles its promise
Done(s, call, settled, result) ==
    [store |-> s, call |-> call, done |-> TRUE, settled |-> settled, result |-> result]

\* try { ... } catch { ... } finally { ... } of a top-level action whose awaited
\* request or nested call threw err
Fail(call, s, err) ==
    LET cb == CatchBlock(s, err)
    IN  Done(Finally(cb.state), [call EXCEPT !.thrown = err],
             IF cb.completion = "return" THEN "fulfilled" ELSE "rejected", cb.value)

\* the body of fetchAll after its GET settled with res; nested = called by a mutation
FetchAllContinue(call, s, res, nested) ==
    LET t  == FetchAllTry(s, res)
        cb == CatchBlock(s, t.thrown)
    IN  IF t.ok
        THEN IF nested
             THEN Pend(Finally(t.state), [call EXCEPT !.pc = "refreshed"])
             ELSE Done(Finally(t.state), call, "fulfilled", Undefined)
        ELSE IF nested
             THEN Pend(Finally(cb.state),
                       [call EXCEPT !.refreshThrown = t.thrown,
                                    !.pc = IF cb.completion = "return"
                                           THEN "refreshed" ELSE "refreshThrew"])
             ELSE Fail(call, s, t.thrown)

\* the body of fetchOne after its GET settled with res
FetchOneContinue(call, s, res) ==
    IF res.ok
    THEN Done(Finally([s EXCEPT !.item = res.value]), call, "fulfilled", Undefined)
    ELSE Fail(call, s, res.value)

\* the body of create/update/remove after its own request settled with res
MutationContinue(call, s, res) ==
    IF RefreshesList(call.op, res.ok)
    THEN \* await this.fetchAll(): the container's fetchAll runs up to its own await
         LET s1 == Begin(s)
             c2 == [call EXCEPT !.data = IF res.ok THEN res.value ELSE @, !.stage = "refresh",
                                !.refreshBy = Actions(extension)["fetchAll"]]
         IN  IF c2.refreshBy = "extension"
             THEN Pend(s, [c2 EXCEPT !.pc = "refreshed"])
             ELSE Pend(s1, Issue(c2, s1, "get", Endpoint, EmptyObject))
    ELSE IF res.ok
         THEN Done(Finally(s), [call EXCEPT !.data = res.value], "fulfilled",
                   ReturnValue(call.op, res.value))
         ELSE Fail(call, s, res.value)

\* a direct call of apiClient.postFile: its promise settles as the wrapper's
PostFileContinue(call, s, res) ==
    IF res.ok
    THEN Done(s, call, "fulfilled", res.value)
    ELSE Done(s, [call EXCEPT !.thrown = res.value], "rejected", res.value)

\* the continuation of call after the promise it awaits settled with res
Continue(call, s, res) ==
    IF call.op = "postFile" THEN PostFileContinue(call, s, res)
    ELSE IF call.stage = "refresh" THEN FetchAllContinue(call, s, res, TRUE)
    ELSE IF call.op = "fetchAll" THEN FetchAllContinue(call, s, res, FALSE)
    ELSE IF call.op = "fetchOne" THEN FetchOneContinue(call, s, res)
    ELSE MutationContinue(call, s, res)

\* a slip: the failure of the refresh reaches the catch block of the mutation
ResumeAfterRefresh_propagates(call, s) ==
    IF call.refreshThrown = NotThrown
    THEN Done(Finally(s), call, "fulfilled", ReturnValue(call.op, call.data))
    ELSE Fail(call, s, call.refreshThrown)

\* the continuation of a mutation after `await this.fetchAll()` settled
ResumeAfterRefresh(call, s) ==
    IF call.pc = "refreshed"
    THEN Done(Finally(s), call, "fulfilled", ReturnValue(call.op, call.data))
    ELSE Fail(call, s, call.refreshThrown)

Apply(c, n) ==
    /\ store' = n.store
    /\ IF n.done
       THEN /\ calls' = [d \in Pending \ {c} |-> calls[d]]
            /\ resolved' = Settled(n.call, n.settled, n.result)
       ELSE /\ calls' = [calls EXCEPT ![c] = n.call]
            /\ resolved' = NoCall
    /\ UNCHANGED <<axiosInstance, instance, extension, included>>

\* the first free slot for a new pending call
FreeSlot(P) == CHOOSE i \in 1..P.pending : i \notin Pending /\ \A j \in 1..(i-1) : j \in Pending

\* a caller invokes store.<op>(...): the action runs up to its first await
Invoke(P, op, id, args, payload) ==
    /\ op \in StoreActions(included)
    /\ Cardinality(Pending) < P.pending
    /\ \A d \in Pending : calls[d].op \in BaseActions
    /\ IF Actions(extension)[op] = "extension"
       THEN \* the extension's action runs: no request, no change of the state
            /\ resolved' = Settled([NewCall(op, id, args) EXCEPT !.by = "extension"],
                                   "fulfilled", ExtensionResult)
            /\ UNCHANGED <<store, calls>>
       ELSE LET c  == FreeSlot(P)
                s1 == Begin(store)
                nc == Issue(NewCall(op, id, args), s1, Method(op), Url(op, id), payload)
            IN  /\ store' = s1
                /\ calls' = [d \in Pending \cup {c} |-> IF d = c THEN nc ELSE calls[d]]
                /\ resolved' = NoCall
    /\ UNCHANGED <<axiosInstance, instance, extension, included>>

fetchAll(P) == \E params \in P.params : Invoke(P, "fetchAll", 0, params, params)

fetchOne(P) == \E id \in P.ids : Invoke(P, "fetchOne", id, EmptyObject, Undefined)

create(P) == \E payload \in Payloads : Invoke(P, "create", 0, payload, payload)

update(P) == \E id \in P.ids, payload \in Payloads : Invoke(P, "update", id, payload, payload)

remove(P) == \E id \in P.ids : Invoke(P, "remove", id, EmptyObject, Undefined)

UploadUrl == <<"upload">>
FormData  == [file |-> "file.txt"]

\* a caller invokes apiClient.postFile(url, formData) directly.  postFile and
\* the store share no state but axiosInstance, which neither writes: the
\* model runs an upload while no base action is pending
postFile(P) ==
    /\ Pending = {}
    /\ LET c  == FreeSlot(P)
           nc == Sent(NewCall("postFile", 0, FormData), store, PostFileRequest(UploadUrl, FormData))
       IN  calls' = [d \in Pending \cup {c} |-> IF d = c THEN nc ELSE calls[d]]
    /\ resolved' = NoCall
    /\ UNCHANGED <<axiosInstance, instance, extension, included, store>>

\* the bodies a 2xx response to request r can carry
ResponseData(P, r) ==
    CASE r.via = "post"                        -> {Obj("uploaded")}
      [] r.via = "request" /\ r.method = "get" /\ r.url = Endpoint -> P.lists
      [] r.via = "request" /\ r.method = "get" /\ r.url # Endpoint -> {Entity(r.url[2])}
      [] r.via = "request" /\ r.method = "post"   -> {Entity(i) : i \in P.ids}
      [] r.via = "request" /\ r.method = "put"    -> {Entity(r.url[2])}
      [] r.via = "request" /\ r.method = "delete" -> {Undefined}

\* the status of a 2xx response to request r
Status(r) ==
    CASE r.method = "post"   -> 201
      [] r.method = "delete" -> 204
      [] OTHER               -> 200

\* how the transport promise of request r can settle: axios resolves with
\* {status, data} or rejects with an error
Outcomes(P, r) ==
    {[ok |-> TRUE, status |-> Status(r), data |-> d, error |-> Undefined] : d \in ResponseData(P, r)}
    \cup {[ok |-> FALSE, status |-> 0, data |-> Undefined, error |-> e] : e \in P.errors}

\* the transport promise of call c settles; request() and then the action continue
Settle(P) ==
    \E c \in Pending :
        /\ calls[c].pc = "await"
        /\ \E outcome \in Outcomes(P, InFlight(calls[c])) :
               Apply(c, Continue(Answered(calls[c], outcome), store, ApiSettle(outcome)))

\* request() threw before any transport call; the action's catch runs
Catch ==
    \E c \in Pending :
        /\ calls[c].pc = "thrown"
        /\ Apply(c, Continue(calls[c], store, [ok |-> FALSE, value |-> calls[c].rejection]))

\* the nested fetchAll of a mutation has settled; the mutation continues
Resume ==
    \E c \in Pending :
        /\ calls[c].pc \in {"refreshed", "refreshThrew"}
        /\ Apply(c, ResumeAfterRefresh(calls[c], store))

\* initApiClient(config): axios.create(...) replaces the instance
initApiClient(P) ==
    /\ axiosInstance < P.inits
    /\ axiosInstance' = axiosInstance + 1
    /\ \E config \in P.configs : instance' = NewInstance(instance, config)
    /\ resolved' = NoCall
    /\ UNCHANGED <<extension, included, store, calls>>

Step(P) ==
    \/ fetchAll(P)
    \/ fetchOne(P)
    \/ create(P)
    \/ update(P)
    \/ remove(P)
    \/ postFile(P)
    \/ Settle(P)
    \/ Catch
    \/ Resume
    \/ initApiClient(P)

Next == Step(Alone)

NextOverlap == Step(Overlap)

NextCustom == Step(Custom)

\* every base action runs alone
Spec == Init(Alone) /\ [][Next]_vars

\* base actions overlap
SpecOverlap == Init(Overlap) /\ [][NextOverlap]_vars

\* extension bundles and configs
SpecCustom == Init(Custom) /\ [][NextCustom]_vars

-----------------------------------------------------------------------------
(* Observations on the settled invocation *)

\* a base action's promise has just settled
Observed == resolved # NoCall /\ resolved.op \in BaseActions /\ resolved.by = "base"

\* the pending base actions
BasePending == {c \in Pending : calls[c].op \in BaseActions}

Requests == IF Observed THEN resolved.log ELSE <<>>

\* the list GETs the settled invocation issued
ListGets == {i \in DOMAIN Requests : Requests[i].req.method = "get" /\ Requests[i].req.url = Endpoint}

\* the own request of the settled invocation was answered 2xx
OwnSucceeded == Observed /\ Len(Requests) >= 1 /\ Requests[1].outcome.ok

\* the own request of the settled invocation failed, or could not be made
OwnFailed == Observed /\ (Len(Requests) = 0 \/ ~Requests[1].outcome.ok)

-----------------------------------------------------------------------------
(* C1 *)

\* C1: a container built with the included actions S exposes exactly the base
\* actions in S: every action of S is installed, and no base action outside S
\* is ever running or settled on the container.
C1_ExposesExactlyIncluded ==
    /\ included \subseteq StoreActions(included)
    /\ \A c \in BasePending : calls[c].op \in included
    /\ Observed => resolved.op \in included

-----------------------------------------------------------------------------
(* C2 *)

\* C2: when the GET of fetchAll is answered with a list envelope carrying any
\* subset of {objects, current_page, num_pages, total_count}, then once
\* fetchAll has resolved, items is objects (or the empty list), meta is
\* {current_page or 1, num_pages or 1, total_count or the length of objects},
\* loading is false and error is null.
C2_FetchAllDefaults ==
    (Observed /\ resolved.op = "fetchAll" /\ OwnSucceeded /\ Requests[1].outcome.data.t = "list") =>
        LET r   == Requests[1].outcome.data
            obj == IF r.objects.p THEN r.objects.v ELSE <<>>
        IN  /\ store.items = obj
            /\ store.meta.currentPage = (IF r.current_page.p THEN r.current_page.v ELSE 1)
            /\ store.meta.totalPages = (IF r.num_pages.p THEN r.num_pages.v ELSE 1)
            /\ store.meta.totalCount = (IF r.total_count.p THEN r.total_count.v ELSE Len(obj))
            /\ DOMAIN store.meta = {"currentPage", "totalPages", "totalCount"}
            /\ store.loading = FALSE
            /\ store.error = Null

\* a fetchAll answered without total_count and with two objects has resolved
C2_Witness ==
    /\ Observed /\ resolved.op = "fetchAll" /\ OwnSucceeded
    /\ Requests[1].outcome.data.t = "list"
    /\ ~Requests[1].outcome.data.total_count.p
    /\ ~Requests[1].outcome.data.current_page.p
    /\ Requests[1].outcome.data.objects.p
    /\ store.meta.totalCount = 2

-----------------------------------------------------------------------------
(* C3 *)

\* C3: on a container that includes fetchAll, a create, update or remove whose
\* own request succeeded has, when it resolves, issued exactly one list GET,
\* without parameters, after its own request was answered, and that GET has
\* been answered; create and update resolve to the entity the server returned,
\* and items/meta hold the refreshed list.
C3_RefreshAfterMutation ==
    (Observed /\ resolved.op \in Mutations /\ "fetchAll" \in included /\ OwnSucceeded) =>
        /\ Len(Requests) = 2
        /\ Requests[1].req.method = Method(resolved.op)
        /\ ListGets = {2}
        /\ Requests[2].req.params = EmptyObject
        /\ Requests[2].req.data = Absent
        /\ Requests[2].outcome # Unsettled
        /\ resolved.settled = "fulfilled"
        /\ resolved.op \in {"create", "update"} => resolved.result = Requests[1].outcome.data
        /\ (Requests[2].outcome.ok /\ Requests[2].outcome.data.t = "list") =>
               LET r == Requests[2].outcome.data
               IN  /\ store.items = (IF r.objects.p THEN r.objects.v ELSE <<>>)
                   /\ store.meta.currentPage = (IF r.current_page.p THEN r.current_page.v ELSE 1)
                   /\ store.meta.totalPages = (IF r.num_pages.p THEN r.num_pages.v ELSE 1)
                   /\ store.meta.totalCount =
                          (IF r.total_count.p THEN r.total_count.v ELSE Len(store.items))

\* a remove has resolved after its refresh replaced items by a list of two
C3_Witness ==
    /\ Observed /\ resolved.op = "remove" /\ "fetchAll" \in included /\ OwnSucceeded
    /\ Len(Requests) = 2 /\ Requests[2].outcome.ok
    /\ Len(store.items) = 2 /\ store.meta.currentPage = 2

-----------------------------------------------------------------------------
(* C4 *)

\* C4: when the own request of create, update or remove fails, the action
\* issues no list GET at all, and create and update resolve to undefined.
C4_NoRefreshOnFailure ==
    (Observed /\ resolved.op \in Mutations /\ OwnFailed) =>
        /\ ListGets = {}
        /\ Len(Requests) <= 1
        /\ resolved.op \in {"create", "update"} =>
               (resolved.settled = "fulfilled" /\ resolved.result = Undefined)

\* an update answered with an error response has resolved
C4_Witness ==
    /\ Observed /\ resolved.op = "update" /\ OwnFailed
    /\ Len(Requests) = 1 /\ Requests[1].outcome.error.hasResponse
    /\ resolved.result = Undefined

-----------------------------------------------------------------------------
(* C5 *)

\* C5: on a container built with a mutation included and fetchAll excluded, a
\* successful mutation resolves normally (create/update return the server's
\* entity, loading ends false, error stays null) and issues no list GET.
C5_NoRefreshWithoutFetchAll ==
    /\ \A c \in Pending :
           (calls[c].op \in Mutations /\ calls[c].op \in included /\ "fetchAll" \notin included) =>
               \A i \in DOMAIN calls[c].log : calls[c].log[i].req.method # "get"
    /\ (Observed /\ resolved.op \in Mutations /\ resolved.op \in included
            /\ "fetchAll" \notin included /\ OwnSucceeded) =>
           /\ ListGets = {}
           /\ resolved.settled = "fulfilled"
           /\ resolved.op \in {"create", "update"} => resolved.result = Requests[1].outcome.data
           /\ store.loading = FALSE
           /\ store.error = Null

-----------------------------------------------------------------------------
(* C6 *)

\* C6: when the request of fetchOne, create, update or remove fails with an
\* error that carries a response, the error state after the action resolves is
\* the response body itself.
C6_ErrorIsResponseBody ==
    (Observed /\ resolved.op \in BaseActions \ {"fetchAll"} /\ Len(Requests) = 1
        /\ ~Requests[1].outcome.ok /\ Requests[1].outcome.error.hasResponse) =>
        store.error = Requests[1].outcome.error.data

-----------------------------------------------------------------------------
(* C7 *)

\* the value the catch block of the last settled fetchAll caught: that of the
\* action itself, or of the fetchAll nested in a mutation
FetchAllThrown ==
    IF Observed /\ resolved.op = "fetchAll" THEN resolved.thrown
    ELSE IF Observed /\ resolved.op \in Mutations /\ resolved.thrown = NotThrown
         THEN resolved.refreshThrown
    ELSE NotThrown

\* C7: after a failed fetchAll the error state is an Error instance: the
\* thrown value itself when it is an Error, and otherwise a new Error whose
\* message is the string form of the thrown value.
C7_FetchAllErrorIsError ==
    FetchAllThrown # NotThrown =>
        /\ store.error.t = "Error"
        /\ FetchAllThrown.t = "Error" => store.error = FetchAllThrown
        /\ FetchAllThrown.t # "Error" =>
               store.error = [t |-> "Error", message |-> String(FetchAllThrown)]

\* a fetchAll answered with an error response whose body is an object has
\* resolved, and the body was wrapped
C7_Witness ==
    /\ Observed /\ resolved.op = "fetchAll"
    /\ resolved.thrown = Obj("Not Found")
    /\ store.error = Err("[object Object]")

-----------------------------------------------------------------------------
(* C8 *)

\* C8: no base action's promise rejects, whatever the transport answers.
C8_NeverRejects == Observed => resolved.settled = "fulfilled"

\* a mutation whose refresh failed has resolved
C8_Witness ==
    /\ Observed /\ resolved.op \in Mutations /\ resolved.settled = "fulfilled"
    /\ Len(Requests) = 2 /\ ~Requests[2].outcome.ok
    /\ resolved.refreshThrown # NotThrown

-----------------------------------------------------------------------------
(* C9 *)

\* every transport request of the log was issued with loading = true, error = null
IssuedWhileLoading(log) ==
    \A i \in DOMAIN log : log[i].sawLoading = TRUE /\ log[i].sawError = Null

\* C9: a base action sets loading = true and error = null before it issues any
\* transport request (and also when it can issue none), and whatever the
\* outcome, loading is false when its promise settles.
C9_LoadingBracket ==
    /\ \A c \in BasePending :
           /\ IssuedWhileLoading(calls[c].log)
           /\ (calls[c].stage = "own" /\ calls[c].pc \in {"await", "thrown"}) =>
                  (store.loading = TRUE /\ store.error = Null)
    /\ Observed => (IssuedWhileLoading(Requests) /\ store.loading = FALSE)

\* an action whose request was issued while loading, and then failed, has
\* settled with loading false
C9_Witness ==
    /\ Observed /\ OwnFailed /\ Len(Requests) = 1
    /\ Requests[1].sawLoading = TRUE /\ Requests[1].sawError = Null
    /\ store.loading = FALSE /\ store.error # Null

-----------------------------------------------------------------------------
(* C10 *)

\* C10: whenever no base action is pending, loading is false, for any
\* interleaving of overlapping base actions.
C10_IdleNotLoading == BasePending = {} => store.loading = FALSE

\* no action is pending, and the one that settled last succeeded while the
\* error of an action that overlapped it is still in the state
C10_Witness ==
    /\ BasePending = {} /\ Observed /\ resolved.op = "fetchOne" /\ OwnSucceeded
    /\ store.error # Null /\ store.loading = FALSE

-----------------------------------------------------------------------------
(* C11 *)

\* a base action is pending with its transport request in flight
BaseInFlight == {c \in BasePending : calls[c].pc = "await"}

\* C11: loading is true in every state where at least one base action is
\* pending, also when base actions overlap; stated here for the states where a
\* pending base action has a transport request in flight (its own request or
\* the refresh a mutation waits for).
C11_LoadingWhilePending == BaseInFlight # {} => store.loading = TRUE

-----------------------------------------------------------------------------
(* C12 *)

\* a base action is in its own request: called, not yet past its catch block
OwnStage == \E c \in BasePending : calls[c].stage = "own"

\* C12: a base action whose own request fails leaves items, item and meta as
\* they were before it started: no step from its call up to the step in which
\* it settles after the failure of its own request changes any of them.
C12_FailureKeepsData ==
    [][(OwnStage' \/ OwnFailed') =>
           (store'.items = store.items /\ store'.item = store.item /\ store'.meta = store.meta)]_vars

\* an action has settled after its own request failed, and the list, the
\* item and the meta of earlier actions are still in the state
C12_Witness ==
    /\ Observed /\ OwnFailed /\ Len(Requests) = 1
    /\ Len(store.items) = 2 /\ store.item = Entity(1) /\ store.meta.currentPage = 2
    /\ store.error # Null

-----------------------------------------------------------------------------
(* C13 *)

\* a fetchOne is pending, or has just settled after a 2xx answer
FetchOneRunning ==
    \/ \E c \in BasePending : calls[c].op = "fetchOne"
    \/ Observed /\ resolved.op = "fetchOne" /\ OwnSucceeded

\* C13: a successful fetchOne(id) issues exactly one GET to endpoint/id, its
\* item is the response body, loading is false and error is null when it
\* resolves, and no step of it changes items or meta.
C13_FetchOne ==
    /\ []((Observed /\ resolved.op = "fetchOne" /\ OwnSucceeded) =>
             /\ Len(Requests) = 1
             /\ Requests[1].req.via = "request"
             /\ Requests[1].req.method = "get"
             /\ Requests[1].req.url = Endpoint \o <<resolved.id>>
             /\ store.item = Requests[1].outcome.data
             /\ store.loading = FALSE
             /\ store.error = Null)
    /\ [][FetchOneRunning' => (store'.items = store.items /\ store'.meta = store.meta)]_vars

\* fetchOne(2) has resolved with the entity 2 while the list of an earlier
\* fetchAll is in the state
C13_Witness ==
    /\ Observed /\ resolved.op = "fetchOne" /\ resolved.id = 2 /\ OwnSucceeded
    /\ store.item = Entity(2)
    /\ Len(store.items) = 2 /\ store.meta.totalPages = 3

-----------------------------------------------------------------------------
(* C14 *)

\* C14: whenever the own request of a base action fails, error is neither
\* null nor undefined once the action has resolved alone, for every kind of
\* failure, also an error response without body.
C14_ErrorSetOnFailure ==
    (Observed /\ OwnFailed) => (store.error # Null /\ store.error # Undefined)

\* an action answered with an error response without body has resolved
C14_Witness ==
    /\ Observed /\ OwnFailed /\ Len(Requests) = 1
    /\ Requests[1].outcome.error.hasResponse
    /\ Requests[1].outcome.error.data = Undefined
    /\ store.error = Err("undefined")

-----------------------------------------------------------------------------
(* Observations on the wrapper *)

\* the invocations whose transport requests can be inspected: the pending
\* ones and the one that has just settled
Logged == {calls[c] : c \in Pending} \cup (IF resolved = NoCall THEN {} ELSE {resolved})

\* the transport calls that have failed, with how the wrapper settled
Failures ==
    UNION {{k.log[i] : i \in {j \in DOMAIN k.log :
                                 k.log[j].outcome # Unsettled /\ ~k.log[j].outcome.ok}}
           : k \in Logged}

-----------------------------------------------------------------------------
(* C15 *)

\* the invocations that the step starts
Started == {calls[c]' : c \in (DOMAIN calls') \ (DOMAIN calls)}

\* C15: a wrapper verb called while there is no transport instance rejects
\* with the not-initialized message and makes no transport request; once
\* initApiClient has been called, the instance stays and no verb is rejected
\* that way again.
C15_NotInitialized ==
    /\ []((resolved # NoCall /\ resolved.log = <<>>) =>
             /\ resolved.thrown = Err(NotInitializedMessage)
             /\ resolved.op = "postFile" =>
                    (resolved.settled = "rejected" /\ resolved.result = Err(NotInitializedMessage)))
    /\ [][/\ \A k \in Started :
                 IF axiosInstance = 0
                 THEN k.pc = "thrown" /\ k.rejection = Err(NotInitializedMessage) /\ k.log = <<>>
                 ELSE k.pc = "await" /\ k.rejection = NotThrown /\ Len(k.log) = 1
          /\ axiosInstance # 0 =>
                 /\ axiosInstance' # 0
                 /\ \A c \in DOMAIN calls' :
                        calls[c]'.stage = "refresh" => Len(calls[c]'.log) = 2]_vars

\* a postFile called before initApiClient has been rejected without any
\* transport request
C15_Witness ==
    /\ resolved # NoCall /\ resolved.op = "postFile"
    /\ resolved.settled = "rejected"
    /\ resolved.result = Err(NotInitializedMessage)
    /\ resolved.log = <<>>

-----------------------------------------------------------------------------
(* C16 *)

\* the payload the i-th wrapper call of invocation k is made with
Payload(k, i) ==
    IF i = 1 /\ k.op \in {"fetchAll", "create", "update"} THEN k.args ELSE EmptyObject

\* C16: request() passes the payload as query parameters and sets no body for
\* GET and DELETE, passes it as body and sets no query parameters for POST and
\* PUT, the payload being {} when none is given, and when the transport
\* succeeds it resolves to the body of the response and nothing else.
C16_PayloadPlacement ==
    \A k \in Logged : \A i \in DOMAIN k.log :
        LET e == k.log[i]
        IN  e.req.via = "request" =>
                /\ e.req.method \in {"get", "delete"} =>
                       (e.req.params = Payload(k, i) /\ e.req.data = Absent)
                /\ e.req.method \in {"post", "put"} =>
                       (e.req.data = Payload(k, i) /\ e.req.params = Absent)
                /\ e.req.method \in {"get", "delete", "post", "put"}
                /\ (e.outcome # Unsettled /\ e.outcome.ok) =>
                       (e.res.ok /\ e.res.value = e.outcome.data)

\* a remove called without payload has resolved: its DELETE carried {} as
\* query parameters and no body, and was answered 204
C16_Witness ==
    /\ Observed /\ resolved.op = "remove" /\ OwnSucceeded
    /\ Requests[1].req.method = "delete"
    /\ Requests[1].req.params = EmptyObject /\ Requests[1].req.data = Absent
    /\ Requests[1].outcome.status = 204 /\ Requests[1].res.value = Undefined

-----------------------------------------------------------------------------
(* C17 *)

\* C17: when a transport call made by request() or postFile() fails with an
\* error that carries a response, the wrapper rejects with the body of that
\* response, also when the error carries a request and a message as well.
C17_ResponseBodyThrown ==
    \A e \in Failures :
        e.outcome.error.hasResponse =>
            (~e.res.ok /\ e.res.value = e.outcome.error.data)

\* a postFile answered with an error response, on an error that also carries
\* the request, has been rejected with the body
C17_Witness ==
    /\ resolved # NoCall /\ resolved.op = "postFile" /\ Len(resolved.log) = 1
    /\ ~resolved.log[1].outcome.ok
    /\ resolved.log[1].outcome.error.hasResponse /\ resolved.log[1].outcome.error.hasRequest
    /\ resolved.settled = "rejected" /\ resolved.result = Obj("Not Found")

-----------------------------------------------------------------------------
(* C18 *)

\* the transport calls that failed without a response after the request was made
NoResponseFailures ==
    {e \in Failures : ~e.outcome.error.hasResponse /\ e.outcome.error.hasRequest}

\* C18, as stated: when a transport call fails with an error that has a
\* request and no response, the wrapper rejects with an Error whose message
\* is exactly "No response from server.".
C18_NoResponseMessageWithPeriod ==
    \A e \in NoResponseFailures :
        ~e.res.ok /\ e.res.value = Err("No response from server.")

\* C18, amended: when a transport call fails with an error that has a request
\* and no response, the wrapper rejects with an Error whose message is exactly
\* "No response from server", whatever the message of the original error.
C18_NoResponseMessage ==
    \A e \in NoResponseFailures :
        ~e.res.ok /\ e.res.value = Err("No response from server")

\* a call that timed out has been rejected with the fixed message
C18_Witness ==
    /\ resolved # NoCall /\ Len(resolved.log) = 1
    /\ ~resolved.log[1].outcome.ok
    /\ resolved.log[1].outcome.error.hasRequest
    /\ resolved.log[1].outcome.error.message = "timeout exceeded"
    /\ resolved.thrown = Err("No response from server")

-----------------------------------------------------------------------------
(* C19 *)

\* C19: when a transport call made by request() or postFile() fails with an
\* error that has neither a response nor a request, the wrapper rejects with
\* an Error whose message is "Request failed: " followed by the message of
\* the original error.
C19_SetupErrorMessage ==
    \A e \in Failures :
        (~e.outcome.error.hasResponse /\ ~e.outcome.error.hasRequest) =>
            /\ ~e.res.ok
            /\ e.res.value.t = "Error"
            /\ e.res.value.message = "Request failed: " \o e.outcome.error.message

\* a postFile whose transport call failed while it was set up has been
\* rejected
C19_Witness ==
    /\ resolved # NoCall /\ resolved.op = "postFile" /\ Len(resolved.log) = 1
    /\ ~resolved.log[1].outcome.ok
    /\ resolved.log[1].outcome.error.message = "Upload Failed"
    /\ resolved.settled = "rejected"
    /\ resolved.result = Err("Request failed: Upload Failed")

-----------------------------------------------------------------------------
(* C20 *)

\* the value handleError classifies the failure e as
Classified(e) ==
    IF e.outcome.error.hasResponse THEN e.res.value = e.outcome.error.data
    ELSE e.res.value.t = "Error"

-----------------------------------------------------------------------------
(* Observations on the transport instance *)

\* the functions a config supplies as x: none, one, or those of a list
Supplied(x) ==
    IF x = Undefined THEN {}
    ELSE IF x.t = "function" THEN {x}
    ELSE {x.items[i] : i \in DOMAIN x.items}

\* the headers of a config, {} when it has none
CallerHeaders(config) == IF config.headers = Undefined THEN EmptyObject ELSE config.headers

\* the transport requests that the step issues
Issued ==
    {calls[c]'.log[Len(calls[c]'.log)].req :
        c \in {d \in DOMAIN calls' :
                  Len(calls[d]'.log) > (IF d \in DOMAIN calls THEN Len(calls[d].log) ELSE 0)}}

-----------------------------------------------------------------------------
(* C21 *)

\* C21: after initApiClient has been called again with another config, the
\* instance is governed by the last config only: its base URL is that
\* config's, it has no header and no interceptor that the last config does
\* not give it, and every request issued from then on goes to that instance.
C21_LastConfigGoverns ==
    /\ [](axiosInstance # 0 =>
             /\ instance.baseURL = instance.config.baseURL
             /\ DOMAIN instance.headers \subseteq
                    {"Content-Type"} \cup DOMAIN CallerHeaders(instance.config)
             /\ \A i \in DOMAIN instance.request :
                    /\ instance.request[i].onFulfilled
                           \in Supplied(instance.config.requestInterceptors)
                    /\ instance.request[i].onRejected
                           \in Supplied(instance.config.requestInterceptorErrors) \cup {Undefined}
             /\ \A i \in DOMAIN instance.response :
                    /\ instance.response[i].onFulfilled
                           \in Supplied(instance.config.responseInterceptors)
                    /\ instance.response[i].onRejected
                           \in Supplied(instance.config.responseInterceptorErrors) \cup {Undefined})
    /\ [][\A r \in Issued : r.inst = axiosInstance /\ axiosInstance' = axiosInstance]_vars

\* after a second initApiClient, with a config without headers and request
\* interceptors, a request that went to the second instance has been answered
C21_Witness ==
    /\ axiosInstance = 2
    /\ instance.config = Config("/v2", Undefined, Undefined, Undefined, Fn("g1"), Undefined)
    /\ instance.baseURL = "/v2"
    /\ DOMAIN instance.headers = {"Content-Type"}
    /\ instance.request = <<>> /\ Len(instance.response) = 1
    /\ resolved # NoCall /\ Len(resolved.log) = 1 /\ resolved.log[1].req.inst = 2

-----------------------------------------------------------------------------
(* C22 *)

\* C22: the headers the instance is created with are Content-Type:
\* application/json merged with the caller's headers: every caller header is
\* there with the caller's value, also a caller's Content-Type, and
\* Content-Type is application/json when the caller gives none.
C22_HeaderMerge ==
    axiosInstance # 0 =>
        LET h == CallerHeaders(instance.config)
        IN  /\ DOMAIN instance.headers = {"Content-Type"} \cup DOMAIN h
            /\ \A k \in DOMAIN h : instance.headers[k] = h[k]
            /\ "Content-Type" \notin DOMAIN h =>
                   instance.headers["Content-Type"] = "application/json"

\* the client was initialised with a Content-Type and an Authorization header
C22_Witness ==
    /\ axiosInstance # 0
    /\ DOMAIN CallerHeaders(instance.config) = {"Content-Type", "Authorization"}
    /\ instance.headers["Content-Type"] = "text/plain"
    /\ instance.headers["Authorization"] = "token"

-----------------------------------------------------------------------------
(* C23 *)

\* the interceptors a config supplies as x, in their order
InOrder(x) ==
    IF x = Undefined THEN <<>>
    ELSE IF x.t = "function" THEN <<x>>
    ELSE x.items

\* the registrations are one per interceptor of x, in the order of x, each
\* with the first error handler of y, or none
OnePerInterceptor(registrations, x, y) ==
    /\ Len(registrations) = Len(InOrder(x))
    /\ \A i \in DOMAIN registrations :
           /\ registrations[i].onFulfilled = InOrder(x)[i]
           /\ registrations[i].onRejected =
                  (IF InOrder(y) = <<>> THEN Undefined ELSE InOrder(y)[1])

\* C23: for the request and the response direction, initApiClient registers
\* the supplied interceptors one by one in the given order, each with the
\* first supplied error handler of that direction or with none; a single
\* function counts as a list of one, and without interceptors nothing is
\* registered, whatever the error handlers.
C23_InterceptorRegistration ==
    axiosInstance # 0 =>
        /\ OnePerInterceptor(instance.request, instance.config.requestInterceptors,
                             instance.config.requestInterceptorErrors)
        /\ OnePerInterceptor(instance.response, instance.config.responseInterceptors,
                             instance.config.responseInterceptorErrors)

\* the client was initialised with two response interceptors and two
\* response error handlers: both registrations carry the first handler
C23_Witness ==
    /\ axiosInstance # 0
    /\ instance.config.responseInterceptors = Arr(<<Fn("f1"), Fn("f2")>>)
    /\ instance.config.responseInterceptorErrors = Arr(<<Fn("e1"), Fn("e2")>>)
    /\ instance.response = <<[onFulfilled |-> Fn("f1"), onRejected |-> Fn("e1")],
                             [onFulfilled |-> Fn("f2"), onRejected |-> Fn("e1")]>>
    /\ Len(instance.request) = 2 /\ instance.request[2].onRejected = Fn("h1")

-----------------------------------------------------------------------------
(* C24 *)

\* C24: when the extension bundle defines an action under the name of a base
\* action, the container's action of that name is the extension's, for every
\* base action; the refresh of create, update and remove then calls the
\* extension's fetchAll, and no list GET is issued.
C24_ExtensionShadows ==
    /\ \A a \in BaseActions : a \in extension => Actions(extension)[a] = "extension"
    /\ \A c \in BasePending :
           /\ calls[c].op \notin extension
           /\ (calls[c].stage = "refresh" /\ "fetchAll" \in extension) =>
                  (calls[c].refreshBy = "extension" /\ Len(calls[c].log) = 1)
    /\ (resolved # NoCall /\ resolved.op \in extension) =>
           (resolved.by = "extension" /\ resolved.log = <<>>)
    /\ (Observed /\ resolved.op \in Mutations /\ OwnSucceeded /\ "fetchAll" \in extension) =>
           (resolved.refreshBy = "extension" /\ ListGets = {})

\* on a container whose extension defines fetchAll, a create has resolved to
\* the created entity after calling the extension's fetchAll
C24_Witness ==
    /\ extension = {"fetchAll"}
    /\ Observed /\ resolved.op = "create" /\ OwnSucceeded
    /\ resolved.refreshBy = "extension"
    /\ Len(Requests) = 1 /\ resolved.result = Entity(1)

-----------------------------------------------------------------------------
(* C25 *)

\* JSON.stringify of a string, a boolean or a number
JsonStringify(v) ==
    CASE v.t = "string"  -> Str("\"" \o v.s \o "\"")
      [] v.t = "boolean" -> Str(IF v.b THEN "true" ELSE "false")
      [] v.t = "number"  -> Str(ToString(v.n))

\* the parameters with every string, boolean and number stringified
Stringified(params) ==
    [k \in DOMAIN params |->
        IF params[k].t \in {"string", "boolean", "number"}
        THEN JsonStringify(params[k]) ELSE params[k]]

\* C25: the query parameters of the GET of fetchAll(params) are params with
\* every string, boolean and number value (false and 0 too) replaced by its
\* JSON string, arrays and objects being passed as they are.
C25_ParamsStringified ==
    \A k \in Logged :
        (k.op = "fetchAll" /\ Len(k.log) >= 1) =>
            k.log[1].req.params = Stringified(k.args)

-----------------------------------------------------------------------------
(* C26 *)

\* C26: in every state between two asynchronous steps, whatever base actions
\* were called and however they interleave, loading = true implies
\* error = null.
C26_LoadingImpliesNoError == store.loading = TRUE => store.error = Null

\* an action is loading while a mutation whose refresh failed, and set
\* error, has not yet resumed
C26_Witness ==
    /\ store.loading = TRUE /\ store.error = Null
    /\ Cardinality(BasePending) = 2
    /\ \E c \in BasePending : calls[c].refreshThrown # NotThrown

-----------------------------------------------------------------------------
(* C27 *)

\* the items and the meta that a list response r describes
ItemsOf(r) == IF r.objects.p THEN r.objects.v ELSE <<>>

MetaOf(r) ==
    [currentPage |-> IF r.current_page.p THEN r.current_page.v ELSE 1,
     totalPages  |-> IF r.num_pages.p THEN r.num_pages.v ELSE 1,
     totalCount  |-> IF r.total_count.p THEN r.total_count.v ELSE Len(ItemsOf(r))]

\* the list responses that the invocations of the state s have received
Received(logged) ==
    UNION {{k.log[i].outcome.data : i \in {j \in DOMAIN k.log :
                 /\ k.log[j].outcome # Unsettled
                 /\ k.log[j].outcome.ok
                 /\ k.log[j].outcome.data.t = "list"}}
           : k \in logged}

-----------------------------------------------------------------------------
(* C28 *)

\* a fetchAll has just settled after a list response
FetchAllSucceeded ==
    /\ Observed /\ resolved.op = "fetchAll" /\ OwnSucceeded
    /\ Requests[1].outcome.data.t = "list"

\* a fetchAll has just settled after its GET failed
FetchAllFailed == Observed /\ resolved.op = "fetchAll" /\ OwnFailed

\* the step starts a base action, or the refresh of a mutation
ActionStarts == Issued # {} \/ \E c \in (DOMAIN calls') \ (DOMAIN calls) : TRUE

\* C28: overlapping list fetches decide the state in the order they complete,
\* whatever the order they were called in: a fetchAll that completes with a
\* list leaves its list in items and meta and does not touch error, one that
\* completes with a failure leaves its error in error and does not touch
\* items and meta, and an error is only cleared by a step that starts an
\* action.
C28_LastCompletedWins ==
    [][/\ FetchAllSucceeded' =>
              /\ store'.items = ItemsOf(resolved'.log[1].outcome.data)
              /\ store'.meta = MetaOf(resolved'.log[1].outcome.data)
              /\ store'.error = store.error
       /\ FetchAllFailed' =>
              /\ store'.items = store.items /\ store'.meta = store.meta
              /\ store'.error = ToError(resolved'.thrown)
       /\ (store.error # Null /\ store'.error = Null) => ActionStarts]_vars

\* no action is pending, the fetchAll that completed last has left its list
\* in the state, and the error of an action that overlapped it and failed
\* before is still there
C28_Witness ==
    /\ BasePending = {} /\ FetchAllSucceeded
    /\ store.items = ItemsOf(Requests[1].outcome.data) /\ Len(store.items) = 2
    /\ store.error = Err("No response from server")

-----------------------------------------------------------------------------
(* C29 *)

\* a mutation has just settled whose own request succeeded and whose refresh
\* failed
RefreshFailed ==
    /\ Observed /\ resolved.op \in Mutations /\ OwnSucceeded
    /\ resolved.refreshThrown # NotThrown

\* a mutation is pending and no refresh of it has succeeded
Unrefreshed ==
    \E c \in BasePending :
        /\ calls[c].op \in Mutations
        /\ calls[c].stage = "own" \/ calls[c].pc = "await" \/ calls[c].refreshThrown # NotThrown

\* C29: when the own request of create, update or remove succeeds and the
\* refresh that follows fails, the action still resolves, create and update
\* to the entity the server returned, error holds the error of the refresh,
\* and no step of the action has changed items or meta.
C29_RefreshFailure ==
    /\ [](RefreshFailed =>
             /\ resolved.settled = "fulfilled"
             /\ resolved.op \in {"create", "update"} =>
                    resolved.result = Requests[1].outcome.data
             /\ resolved.op = "remove" => resolved.result = Undefined
             /\ store.error # Null
             /\ store.error = ToError(resolved.refreshThrown)
             /\ store.loading = FALSE)
    /\ [][(Unrefreshed' \/ RefreshFailed') =>
              (store'.items = store.items /\ store'.meta = store.meta)]_vars

\* an update has resolved to the updated entity although its refresh got no
\* response; the list of an earlier fetchAll is still in the state
C29_Witness ==
    /\ RefreshFailed /\ resolved.op = "update"
    /\ resolved.result = Entity(resolved.id)
    /\ Len(Requests) = 2 /\ ~Requests[2].outcome.ok
    /\ store.error = Err("No response from server")
    /\ Len(store.items) = 2

-----------------------------------------------------------------------------
(* C30 *)

\* C30, as stated: all transport requests issued by one invocation of a base
\* action go to the same transport instance, also when initApiClient is
\* called while the action is in flight.
C30_OneInstancePerInvocation ==
    \A k \in Logged : \A i, j \in DOMAIN k.log : k.log[i].req.inst = k.log[j].req.inst

\* C30, amended: every transport request goes to the instance that is current
\* when the request is issued: the requests of one invocation go to the same
\* instance unless initApiClient is called between them, and then the later
\* request goes to the newer instance.
C30_CurrentInstancePerRequest ==
    /\ [](\A k \in Logged : \A i \in DOMAIN k.log :
             /\ k.log[i].req.inst >= 1 /\ k.log[i].req.inst <= axiosInstance
             /\ i > 1 => k.log[i-1].req.inst <= k.log[i].req.inst)
    /\ [][/\ \A r \in Issued : r.inst = axiosInstance
          /\ \A c \in DOMAIN calls \cap DOMAIN calls' :
                 (Len(calls[c].log) = 1 /\ Len(calls[c]'.log) = 2
                     /\ calls[c].log[1].req.inst = axiosInstance) =>
                        calls[c]'.log[2].req.inst = calls[c]'.log[1].req.inst]_vars

\* a create has resolved whose POST went to the first instance and whose
\* refresh went to the second
C30_Witness ==
    /\ Observed /\ resolved.op = "create" /\ Len(Requests) = 2
    /\ Requests[1].req.inst = 1 /\ Requests[2].req.inst = 2
    /\ axiosInstance = 2

====
